---------------------------- MODULE Spec2Model ----------------------------
(***************************************************************************)
(* A model of the Sequence and String types of asn1-rs                     *)
(* (src/asn1_types/sequence.rs, src/asn1_types/strings/string.rs): the     *)
(* conversions from Any, the DER constraint check, the ToDer serializer,   *)
(* the borrowed-only parse, the element iterator with its collectors and   *)
(* the ownership normalization to_static.                                  *)
(*                                                                         *)
(* Bytes are the integers 0..255, a byte buffer is a sequence of bytes.    *)
(* A Cow<[u8]> is a pair (content, owned): owned = FALSE is Cow::Borrowed, *)
(* owned = TRUE is Cow::Owned.  A Result is a record with the field ok and *)
(* then either val or err.                                                 *)
(***************************************************************************)
EXTENDS Integers, Sequences, FiniteSets, TLC

\* ------------------------------------------------------------------ bounds

\* The longest list of element chunks a Sequence's content is built from.
MaxElems == 3
\* The largest capacity of a fixed-size (slice) writer.
MaxCap == 5
\* The longest vector handed to Vec<T>::to_static.
MaxVec == 2

\* --------------------------------------------------------------- constants

\* Tag::Sequence, Tag::Utf8String (X.690 universal tag numbers).
TagSequence == 16
TagUtf8String == 12
\* The size below which to_der_len takes the one-byte length.
ShortFormLimit == 127
\* The constructed flag the two headers are built with.
SequenceConstructed == 1
StringConstructed == 0
\* A multi-byte tag number has at most this many continuation bytes, and a
\* long-form length at most this many length bytes (a 64-bit usize).
MaxTagBytes == 4
MaxLengthBytes == 8

Universal == "Universal"
Classes == <<"Universal", "Application", "ContextSpecific", "Private">>

Ok(v) == [ok |-> TRUE, val |-> v]
Err(e) == [ok |-> FALSE, err |-> e]

Min(a, b) == IF a < b THEN a ELSE b

\* The element of a one-element set.  The({e(x) : x \in {d}}) is e with x
\* bound to the value of d, which is computed once.
The(S) == CHOOSE x \in S : TRUE

\* ------------------------------------------------------------ Length codec

\* The big-endian bytes of n without leading zeroes (n > 0).
RECURSIVE BEBytes(_)
BEBytes(n) == IF n < 256 THEN <<n>> ELSE BEBytes(n \div 256) \o <<n % 256>>

\* The number a run of big-endian bytes b[from..to] stands for.
RECURSIVE BEValue(_, _, _)
BEValue(b, from, to) ==
    IF to < from THEN 0 ELSE BEValue(b, from, to - 1) * 256 + b[to]

\* Length::Definite(n): the bytes of the length field.
Length_bytes(n) ==
    IF n < ShortFormLimit THEN <<n>>
    ELSE LET be == BEBytes(n) IN <<128 + Len(be)>> \o be

\* Length::Definite(n).to_der_len(): the size of the length field.
Length_to_der_len(n) ==
    IF n < ShortFormLimit THEN Ok(1)
    ELSE IF Len(BEBytes(n)) > MaxLengthBytes THEN Err("FormatError")
    ELSE Ok(1 + Len(BEBytes(n)))

\* ------------------------------------------------------------ Header codec

ClassBits(c) == CHOOSE i \in 0..3 : Classes[i + 1] = c

\* The base-128 bytes of a tag number >= 31, continuation bit on all but the last.
RECURSIVE TagBase128(_, _)
TagBase128(t, last) ==
    LET b == (t % 128) + (IF last THEN 0 ELSE 128)
    IN IF t < 128 THEN <<b>> ELSE TagBase128(t \div 128, FALSE) \o <<b>>

\* Header::new(class, constructed, tag, Length::Definite(n)).write_der_header:
\* the identifier byte(s) followed by the length field.
Header_bytes(class, constructed, tag, n) ==
    LET id == ClassBits(class) * 64 + constructed * 32
    IN (IF tag < 31 THEN <<id + tag>> ELSE <<id + 31>> \o TagBase128(tag, TRUE))
       \o Length_bytes(n)

\* The tag number held in the continuation bytes b[from..to].
RECURSIVE TagValue(_, _, _)
TagValue(b, from, to) ==
    IF to < from THEN 0 ELSE TagValue(b, from, to - 1) * 128 + (b[to] % 128)

\* The identifier octets at the front of b: the class, the constructed flag,
\* the tag number, and the index `next` of the first length byte.
ParseIdent(b) ==
    IF Len(b) = 0 THEN Err("Incomplete")
    ELSE LET b1 == b[1]
             hd == [class |-> Classes[(b1 \div 64) + 1],
                    constructed |-> (b1 \div 32) % 2]
             top == Min(Len(b), 1 + MaxTagBytes)
             ends == {i \in 2..top : b[i] < 128}
         IN IF b1 % 32 < 31
               THEN Ok([class |-> hd.class, constructed |-> hd.constructed,
                        tag |-> b1 % 32, next |-> 2])
            ELSE IF ends # {}
               THEN LET e == CHOOSE i \in ends : \A j \in ends : i <= j
                    IN Ok([class |-> hd.class, constructed |-> hd.constructed,
                           tag |-> TagValue(b, 2, e), next |-> e + 1])
            ELSE IF Len(b) >= 1 + MaxTagBytes THEN Err("FormatError")
            ELSE Err("Incomplete")

\* The length field of b at index p, under discipline disc ("ber" or "der"):
\* definite with its value, or indefinite, and the index of the first
\* content byte.
ParseLength(b, p, disc) ==
    IF p > Len(b) THEN Err("Incomplete")
    ELSE LET l == b[p]
             k == l - 128
         IN IF l < ShortFormLimit
               THEN Ok([definite |-> TRUE, n |-> l, next |-> p + 1])
            ELSE IF l = 127 \/ l = 255 THEN Err("FormatError")
            ELSE IF l = 128
               THEN Ok([definite |-> FALSE, n |-> 0, next |-> p + 1])
            ELSE IF k > MaxLengthBytes THEN Err("FormatError")
            ELSE IF p + k > Len(b) THEN Err("Incomplete")
            ELSE IF disc = "der"
                    /\ (b[p + 1] = 0 \/ BEValue(b, p + 1, p + k) < ShortFormLimit)
               THEN Err("FormatError")
            ELSE Ok([definite |-> TRUE, n |-> BEValue(b, p + 1, p + k),
                     next |-> p + k + 1])

\* Any::from_ber / Any::from_der: the header, then the content bytes it
\* declares.  The Any borrows from b; rem is what follows it in b.
ParseAny(b, disc) ==
    The({
        IF ~id.ok THEN id
        ELSE The({
            IF ~ln.ok THEN ln
            ELSE LET p == ln.val.next
                     mk(content, rest) ==
                         Ok([any |-> [class |-> id.val.class,
                                      constructed |-> id.val.constructed,
                                      tag |-> id.val.tag,
                                      content |-> content,
                                      owned |-> FALSE],
                             rem |-> rest])
                 IN IF ln.val.definite
                       THEN IF Len(b) - p + 1 < ln.val.n THEN Err("Incomplete")
                            ELSE mk(SubSeq(b, p, p + ln.val.n - 1),
                                    SubSeq(b, p + ln.val.n, Len(b)))
                    ELSE IF disc = "der" \/ id.val.constructed = 0
                       THEN Err("FormatError")
                    ELSE LET eocs == {j \in p..(Len(b) - 1) :
                                         b[j] = 0 /\ b[j + 1] = 0}
                         IN IF eocs = {} THEN Err("Incomplete")
                            ELSE LET j == CHOOSE i \in eocs :
                                              \A x \in eocs : i <= x
                                 IN mk(SubSeq(b, p, j - 1),
                                       SubSeq(b, j + 2, Len(b)))
            : ln \in {ParseLength(b, id.val.next, disc)}})
        : id \in {ParseIdent(b)}})

\* ------------------------------------------------------------------ UTF-8

IsCont(x) == x >= 128 /\ x <= 191

\* The length of the UTF-8 sequence a lead byte opens, 0 for a byte that
\* cannot open one.
Utf8Width(x) ==
    IF x < 128 THEN 1
    ELSE IF x >= 194 /\ x <= 223 THEN 2
    ELSE IF x >= 224 /\ x <= 239 THEN 3
    ELSE IF x >= 240 /\ x <= 244 THEN 4
    ELSE 0

\* The range of the second byte after lead byte x (overlong forms, the
\* surrogates and code points above U+10FFFF are not UTF-8).
SecondOk(x, y) ==
    IF x = 224 THEN y >= 160 /\ y <= 191
    ELSE IF x = 237 THEN y >= 128 /\ y <= 159
    ELSE IF x = 240 THEN y >= 144 /\ y <= 191
    ELSE IF x = 244 THEN y >= 128 /\ y <= 143
    ELSE IsCont(y)

\* std::str::from_utf8(b).is_ok(): every byte that is no continuation byte
\* opens a sequence that is followed by exactly its continuation bytes.
IsValidUtf8(b) ==
    /\ Len(b) > 0 => ~IsCont(b[1])
    /\ \A i \in 1..Len(b) :
          IsCont(b[i]) \/
          LET wd == Utf8Width(b[i])
          IN /\ wd > 0
             /\ i + wd - 1 <= Len(b)
             /\ \A j \in (i + 1)..(i + wd - 1) : IsCont(b[j])
             /\ wd > 1 => SecondOk(b[i], b[i + 1])
             /\ i + wd <= Len(b) => ~IsCont(b[i + wd])

\* ----------------------------------------------------------- typed values

\* Sequence { content: Cow<[u8]> }
Sequence(content, owned) == [type |-> "Sequence", content |-> content, owned |-> owned]
\* A std String: its UTF-8 bytes, which it owns.
StringOf(bytes) == [type |-> "String", content |-> bytes, owned |-> TRUE]
NoVal == [type |-> "None", content |-> <<>>, owned |-> FALSE]

\* #[derive(PartialEq)] on Sequence, and String's ==: the bytes are compared,
\* not whether they are borrowed.
StructEq(a, b) == a.type = b.type /\ a.content = b.content

\* Tag::assert_eq
Tag_assert_eq(tag, expected) ==
    IF tag = expected THEN Ok(TRUE) ELSE Err("TagMismatch")

\* Header::assert_constructed, Header::assert_primitive
Header_assert_constructed(any) ==
    IF any.constructed = 1 THEN Ok(TRUE) ELSE Err("ConstructExpected")
Header_assert_primitive(any) ==
    IF any.constructed = 0 THEN Ok(TRUE) ELSE Err("ConstraintError")

\* impl TryFrom<Any> for Sequence
Sequence_try_from(any) ==
    IF ~Tag_assert_eq(any.tag, TagSequence).ok
       THEN Tag_assert_eq(any.tag, TagSequence)
    ELSE IF ~Header_assert_constructed(any).ok
       THEN Header_assert_constructed(any)
    ELSE Ok(Sequence(any.content, any.owned))

\* impl CheckDerConstraints for Sequence
Sequence_check_constraints(any) == Ok(TRUE)

\* impl TryFrom<Any> for Utf8String: data is a Cow<str> over the content.
Utf8String_try_from(any) ==
    IF ~Tag_assert_eq(any.tag, TagUtf8String).ok
       THEN Tag_assert_eq(any.tag, TagUtf8String)
    ELSE IF ~IsValidUtf8(any.content) THEN Err("StringInvalidCharset")
    ELSE Ok([data |-> any.content, owned |-> any.owned])

\* Cow::into_owned on a Cow<str>
Cow_into_owned(c) == StringOf(c.data)

\* String::try_from without the into_owned of line 13: the String keeps the
\* borrow state of the Any's content.
String_try_from_borrowing(any) ==
    IF ~Tag_assert_eq(any.tag, TagUtf8String).ok
       THEN Tag_assert_eq(any.tag, TagUtf8String)
    ELSE The({IF ~s.ok THEN s
              ELSE Ok([type |-> "String", content |-> s.val.data,
                       owned |-> s.val.owned])
              : s \in {Utf8String_try_from(any)}})

\* impl TryFrom<Any> for String
String_try_from(any) ==
    IF ~Tag_assert_eq(any.tag, TagUtf8String).ok
       THEN Tag_assert_eq(any.tag, TagUtf8String)
    ELSE The({IF ~s.ok THEN s ELSE Ok(Cow_into_owned(s.val))
              : s \in {Utf8String_try_from(any)}})

\* String::check_constraints without the assert_primitive.
String_check_constraints_none(any) == Ok(TRUE)

\* impl CheckDerConstraints for String (X.690 section 10.2)
String_check_constraints(any) ==
    IF ~Header_assert_primitive(any).ok THEN Header_assert_primitive(any)
    ELSE Ok(TRUE)

\* Tagged::TAG, and the two conversion contracts by type name.
TagOf(T) == IF T = "Sequence" THEN TagSequence ELSE TagUtf8String
TryFrom(T, any) ==
    IF T = "Sequence" THEN Sequence_try_from(any) ELSE String_try_from(any)
CheckConstraints(T, any) ==
    IF T = "Sequence" THEN Sequence_check_constraints(any)
    ELSE String_check_constraints(any)

\* T::from_ber(b): parse an Any, convert it.  The value and the rest of b.
FromBer(T, b) ==
    The({
        IF ~p.ok THEN p
        ELSE The({IF ~r.ok THEN r ELSE Ok([value |-> r.val, rem |-> p.val.rem])
                  : r \in {TryFrom(T, p.val.any)}})
        : p \in {ParseAny(b, "ber")}})

\* T::from_der(b): parse an Any under DER, assert the tag, check the DER
\* constraints, convert it.
FromDer(T, b) ==
    The({
        IF ~p.ok THEN p
        ELSE IF ~Tag_assert_eq(p.val.any.tag, TagOf(T)).ok
           THEN Tag_assert_eq(p.val.any.tag, TagOf(T))
        ELSE IF ~CheckConstraints(T, p.val.any).ok
           THEN CheckConstraints(T, p.val.any)
        ELSE The({IF ~r.ok THEN r ELSE Ok([value |-> r.val, rem |-> p.val.rem])
                  : r \in {TryFrom(T, p.val.any)}})
        : p \in {ParseAny(b, "der")}})

FromDisc(T, disc, b) == IF disc = "ber" THEN FromBer(T, b) ELSE FromDer(T, b)

\* ------------------------------------------------------------------ ToDer

\* Sequence::to_der_len with the comparison sz <= 127 in place of sz < 127.
Sequence_to_der_len_le(s) ==
    LET sz == Len(s.content)
    IN IF sz <= ShortFormLimit THEN Ok(2 + sz)
       ELSE LET n == Length_to_der_len(sz)
            IN IF ~n.ok THEN n ELSE Ok(1 + n.val + sz)

\* impl ToDer for Sequence: to_der_len
Sequence_to_der_len(s) ==
    LET sz == Len(s.content)
    IN IF sz < ShortFormLimit THEN Ok(2 + sz)
       ELSE LET n == Length_to_der_len(sz)
            IN IF ~n.ok THEN n ELSE Ok(1 + n.val + sz)

\* impl ToDer for String: to_der_len
String_to_der_len(s) ==
    LET sz == Len(s.content)
    IN IF sz < ShortFormLimit THEN Ok(2 + sz)
       ELSE LET n == Length_to_der_len(sz)
            IN IF ~n.ok THEN n ELSE Ok(1 + n.val + sz)

\* A std::io::Write.  kind "vec" is a Vec<u8>, which takes every byte;
\* kind "slice" is a &mut [u8] of cap bytes, whose write copies what still
\* fits and returns that count; kind "broken" fails every write.
\* hdr and cnt keep what write_der_header and write_der_content returned.
NoRes == [ok |-> FALSE, err |-> "none"]
NoWriter == [kind |-> "none", cap |-> 0, buf |-> <<>>, stage |-> "none",
             hdr |-> NoRes, cnt |-> NoRes]
NewWriterOf(kind, cap) ==
    [kind |-> kind, cap |-> cap, buf |-> <<>>, stage |-> "new",
     hdr |-> NoRes, cnt |-> NoRes]

\* writer.write(bytes): the writer afterwards and the returned count.
Writer_write(w, bytes) ==
    IF w.kind = "broken" THEN [w |-> w, out |-> Err("WriteError")]
    ELSE LET n == IF w.kind = "vec" THEN Len(bytes)
                  ELSE Min(Len(bytes), w.cap - Len(w.buf))
         IN [w |-> [w EXCEPT !.buf = w.buf \o SubSeq(bytes, 1, n)],
             out |-> Ok(n)]

\* Header::new, and Header::write_der_header on the writer.
Header_new(class, constructed, tag, n) ==
    [class |-> class, constructed |-> constructed, tag |-> tag, length |-> n]
Header_write_der_header(h, w) ==
    Writer_write(w, Header_bytes(h.class, h.constructed, h.tag, h.length))

\* Sequence::write_der_header with the constructed flag 0 of String's header.
Sequence_write_der_header_primitive(s, w) ==
    Header_write_der_header(
        Header_new(Universal, StringConstructed, TagSequence, Len(s.content)), w)

\* impl ToDer for Sequence: write_der_header, write_der_content
Sequence_write_der_header(s, w) ==
    Header_write_der_header(
        Header_new(Universal, SequenceConstructed, TagSequence, Len(s.content)), w)
Sequence_write_der_content(s, w) == Writer_write(w, s.content)

\* impl ToDer for String: write_der_header, write_der_content
String_write_der_header(s, w) ==
    Header_write_der_header(
        Header_new(Universal, StringConstructed, TagUtf8String, Len(s.content)), w)
String_write_der_content(s, w) == Writer_write(w, s.content)

ToDerLen(v) ==
    IF v.type = "Sequence" THEN Sequence_to_der_len(v) ELSE String_to_der_len(v)
WriteDerHeader(v, w) ==
    IF v.type = "Sequence" THEN Sequence_write_der_header(v, w)
    ELSE String_write_der_header(v, w)
WriteDerContent(v, w) ==
    IF v.type = "Sequence" THEN Sequence_write_der_content(v, w)
    ELSE String_write_der_content(v, w)

\* ToDer::to_der_vec: the header, then the content, into a fresh Vec.
ToDerVec(v) ==
    The({WriteDerContent(v, h.w).w.buf
         : h \in {WriteDerHeader(v, NewWriterOf("vec", 0))}})

\* -------------------------------------------------------------- to_static

\* Sequence::to_static that clones the Cow as it is (self.clone()).
Sequence_to_static_clone(s) == Sequence(s.content, s.owned)

\* impl ToStatic for Sequence
Sequence_to_static(s) == Sequence(s.content, TRUE)

\* impl ToStatic for String: a clone.
String_to_static(s) == StringOf(s.content)

ToStatic(v) ==
    IF v.type = "Sequence" THEN Sequence_to_static(v) ELSE String_to_static(v)

\* impl ToStatic for Vec<T>
Vec_to_static(v) == [i \in 1..Len(v) |-> ToStatic(v[i])]

\* -------------------------------------------------------------- parse_ref

\* The callbacks handed to parse_ref: one that returns the bytes it is
\* given, one that decodes the first element, one that fails.
Callbacks == {"take", "first", "fail"}
Callback(f, b) ==
    IF f = "take" THEN Ok([value |-> b, rem |-> <<>>])
    ELSE IF f = "first" THEN FromBer("String", b)
    ELSE Err("CallbackError")

\* Sequence::parse_ref that calls f on owned content too.
Sequence_parse_ref_any(s, f) ==
    [out |-> Callback(f, s.content), calls |-> <<s.content>>]

\* Sequence::parse_ref: what it returns, and the arguments of the calls it
\* made to f.
Sequence_parse_ref(s, f) ==
    IF ~s.owned THEN [out |-> Callback(f, s.content), calls |-> <<s.content>>]
    ELSE [out |-> Err("LifetimeError"), calls |-> <<>>]

\* --------------------------------------------------------------- iterator

\* The element type T the Sequence is read as.
ElemType == "String"

None == [some |-> FALSE]
Some(x) == [some |-> TRUE, item |-> x]

\* SequenceIterator::new.  data and has_error are the iterator's fields and
\* disc its parser (BerParser or DerParser).
SequenceIterator_new(data, disc) ==
    [disc |-> disc, data |-> data, has_error |-> FALSE]

\* Iterator::next for SequenceIterator: the iterator afterwards and the item.
SequenceIterator_next(i) ==
    IF i.has_error \/ Len(i.data) = 0 THEN [it |-> i, item |-> None]
    ELSE The({
            IF r.ok
               THEN [it |-> [i EXCEPT !.data = r.val.rem],
                     item |-> Some(Ok(r.val.value))]
            ELSE [it |-> [i EXCEPT !.has_error = TRUE],
                  item |-> Some(Err(r.err))]
            : r \in {FromDisc(ElemType, i.disc, i.data)}})

\* Iterator::collect::<Result<Vec<T>>>: the items up to the end, or the
\* first error.
RECURSIVE Collect(_, _)
Collect(i, acc) ==
    The({
        IF ~s.item.some THEN Ok(acc)
        ELSE IF ~s.item.item.ok THEN s.item.item
        ELSE Collect(s.it, Append(acc, s.item.item.val))
        : s \in {SequenceIterator_next(i)}})

\* Sequence::ber_iter that builds the iterator with the DerParser.
Sequence_ber_iter_der(s) == SequenceIterator_new(s.content, "der")

\* Sequence::ber_iter, Sequence::der_iter
Sequence_ber_iter(s) == SequenceIterator_new(s.content, "ber")
Sequence_der_iter(s) == SequenceIterator_new(s.content, "der")

\* Sequence::ber_sequence_of, Sequence::der_sequence_of
Sequence_ber_sequence_of(s) == Collect(Sequence_ber_iter(s), <<>>)
Sequence_der_sequence_of(s) == Collect(Sequence_der_iter(s), <<>>)

\* Sequence::into_ber_sequence_of
Sequence_into_ber_sequence_of(s) ==
    IF ~s.owned THEN Collect(SequenceIterator_new(s.content, "ber"), <<>>)
    ELSE The({IF ~v1.ok THEN v1 ELSE Ok(Vec_to_static(v1.val))
              : v1 \in {Collect(SequenceIterator_new(s.content, "ber"), <<>>)}})

\* collect that stops at the first error and keeps what it has.
RECURSIVE CollectLenient(_, _)
CollectLenient(i, acc) ==
    The({
        IF ~s.item.some \/ ~s.item.item.ok THEN Ok(acc)
        ELSE CollectLenient(s.it, Append(acc, s.item.item.val))
        : s \in {SequenceIterator_next(i)}})

\* Sequence::into_der_sequence_of without the ? on the collected result.
Sequence_into_der_sequence_of_lenient(s) ==
    IF ~s.owned THEN Collect(SequenceIterator_new(s.content, "der"), <<>>)
    ELSE Ok(Vec_to_static(
                CollectLenient(SequenceIterator_new(s.content, "der"), <<>>).val))

\* Sequence::into_der_sequence_of
Sequence_into_der_sequence_of(s) ==
    IF ~s.owned THEN Collect(SequenceIterator_new(s.content, "der"), <<>>)
    ELSE The({IF ~v1.ok THEN v1 ELSE Ok(Vec_to_static(v1.val))
              : v1 \in {Collect(SequenceIterator_new(s.content, "der"), <<>>)}})

\* The concatenation of a list of byte buffers.
RECURSIVE FlattenBytes(_)
FlattenBytes(bs) ==
    IF Len(bs) = 0 THEN <<>> ELSE Head(bs) \o FlattenBytes(Tail(bs))

\* Sequence::from_iter_to_der
Sequence_from_iter_to_der(items) ==
    Ok(Sequence(FlattenBytes([i \in 1..Len(items) |-> ToDerVec(items[i])]), TRUE))

\* ----------------------------------------------------------------- inputs

\* All sequences over S of length at most n.
SeqsUpTo(S, n) == UNION {[1..k -> S] : k \in 0..n}

\* The strings the elements of a Sequence are encoded from.
ElemStrings == {<<>>, <<65>>}
ElemValues == {StringOf(s) : s \in ElemStrings}

\* The chunks a Sequence's content is put together from: the DER encodings
\* of the element strings, a constructed UTF8String (BER only), an OCTET
\* STRING (a wrong tag for String), and the encoding of "AA" cut inside its
\* header and inside its content.
DerChunks == {ToDerVec(v) : v \in ElemValues}
BerOnlyChunk == <<44, 1, 65>>
WrongTagChunk == <<4, 0>>
TruncatedChunks ==
    LET enc == ToDerVec(StringOf(<<65, 65>>))
    IN {SubSeq(enc, 1, 1), SubSeq(enc, 1, 3)}
Chunks == DerChunks \cup {BerOnlyChunk, WrongTagChunk} \cup TruncatedChunks
Contents == {FlattenBytes(cs) : cs \in SeqsUpTo(Chunks, MaxElems)}

\* The content sizes around the short/long form boundary of the length.
ThresholdSizes == {0, 126, 127, 128, 255, 256, 65535, 65536}
Fill(n) == [i \in 1..n |-> 65]
SizedContents == {Fill(n) : n \in ThresholdSizes}

\* The Strings that are serialized: ASCII, a two-byte character, the sizes.
StringValues == {<<>>, <<65>>, <<195, 169>>, <<65, 195, 169>>} \cup SizedContents

\* The Any values handed to try_from and check_constraints.
AnyTags == {TagUtf8String, TagSequence, 4}
AnyContents == {<<>>, <<65>>, <<128>>, <<12, 1, 65>>}
AnySet ==
    [class : {Classes[i] : i \in 1..4}, constructed : {0, 1}, tag : AnyTags,
     content : AnyContents, owned : BOOLEAN]

Types == {"Sequence", "String"}
Discs == {"ber", "der"}

\* The vectors handed to Vec<T>::to_static.
VecElems == {Sequence(c, o) : c \in {<<>>, <<65>>, <<12, 0>>}, o \in BOOLEAN}
VecInputs == SeqsUpTo(VecElems, MaxVec)

\* The writers: a Vec, a failing one, and slices of the capacities from 2
\* (the tag byte and a one-byte length) to MaxCap.
Writers ==
    {NewWriterOf("vec", 0), NewWriterOf("broken", 0)}
    \cup {NewWriterOf("slice", c) : c \in 2..MaxCap}

\* The number of times next is still called after it returned None.
MaxNones == 1

\* ------------------------------------------------------------------ state

\* val: the typed value in hand (a Sequence, a String, or none);
\* it:  the SequenceIterator over val's content, when one is alive;
\* w:   the writer val is being serialized to, when there is one;
\* res: what the last call was and what it returned.
VARIABLES val, it, w, res

vars == <<val, it, w, res>>

\* The iterator in use: the method that made it ("ber_iter" or "der_iter"),
\* the SequenceIterator itself, the number of calls of next so far and the
\* items they returned.
NoIter == [active |-> FALSE, method |-> "none",
           iter |-> SequenceIterator_new(<<>>, "ber"), calls |-> 0, out |-> <<>>]
IterOf(method, i) ==
    [active |-> TRUE, method |-> method, iter |-> i, calls |-> 0, out |-> <<>>]

Init ==
    /\ val = NoVal
    /\ it = NoIter
    /\ w = NoWriter
    /\ res = [op |-> "none"]

\* Nothing has been called yet: a run makes one value and works on it.
Start == res.op = "none"

Fresh(v, r) ==
    /\ val' = v
    /\ it' = NoIter
    /\ w' = NoWriter
    /\ res' = r

\* Sequence::new(content) on a borrowed or an owned buffer.
NewSequence ==
    /\ Start
    /\ \E c \in Contents \cup SizedContents, o \in BOOLEAN :
        Fresh(Sequence(c, o), [op |-> "new"])

\* A String of the caller's.
NewString ==
    /\ Start
    /\ \E s \in StringValues : Fresh(StringOf(s), [op |-> "new"])

\* T::try_from(any)
TryFromAny ==
    /\ Start
    /\ \E T \in Types, a \in AnySet :
        \E r \in {TryFrom(T, a)} :
            Fresh(IF r.ok THEN r.val ELSE NoVal,
                  [op |-> "try_from", type |-> T, any |-> a, out |-> r])

\* T::check_constraints(&any)
CheckAny ==
    /\ Start
    /\ \E T \in Types, a \in AnySet :
        Fresh(NoVal, [op |-> "check_constraints", type |-> T, any |-> a,
                      out |-> CheckConstraints(T, a)])

\* T::from_ber(input) / T::from_der(input)
Decode ==
    /\ Start
    /\ \E T \in Types, d \in Discs, b \in Contents :
        \E r \in {FromDisc(T, d, b)} :
            Fresh(IF r.ok THEN r.val.value ELSE NoVal,
                  [op |-> "decode", type |-> T, disc |-> d, input |-> b,
                   out |-> r])

\* Sequence::from_iter_to_der(items)
FromIterToDer ==
    /\ Start
    /\ \E items \in SeqsUpTo(ElemValues, MaxElems) :
        \E r \in {Sequence_from_iter_to_der(items)} :
            Fresh(r.val, [op |-> "from_iter_to_der", items |-> items, out |-> r])

\* v.to_static() on a vector of Sequences
VecToStatic ==
    /\ Start
    /\ \E v \in VecInputs :
        Fresh(NoVal, [op |-> "vec_to_static", in |-> v, out |-> Vec_to_static(v)])

\* No iterator and no writer is in use.
Idle == ~it.active /\ w.kind = "none"

\* val.to_static()
ToStaticCall ==
    /\ val.type # "None" /\ Idle
    /\ res' = [op |-> "to_static", in |-> val, out |-> ToStatic(val)]
    /\ UNCHANGED <<val, it, w>>

\* val.to_der_len()
ToDerLenCall ==
    /\ val.type # "None" /\ Idle
    /\ res' = [op |-> "to_der_len", in |-> val, out |-> ToDerLen(val)]
    /\ UNCHANGED <<val, it, w>>

\* val.parse_ref(f): val is moved into the call.
ParseRef ==
    /\ val.type = "Sequence"
    /\ \E f \in Callbacks :
          \E r \in {Sequence_parse_ref(val, f)} :
              Fresh(NoVal, [op |-> "parse_ref", in |-> val, f |-> f,
                            out |-> r.out, calls |-> r.calls])

\* val.ber_iter() / val.der_iter()
BerIter ==
    /\ val.type = "Sequence" /\ w.kind = "none"
    /\ it' = IterOf("ber_iter", Sequence_ber_iter(val))
    /\ res' = [op |-> "ber_iter"]
    /\ UNCHANGED <<val, w>>

DerIter ==
    /\ val.type = "Sequence" /\ w.kind = "none"
    /\ it' = IterOf("der_iter", Sequence_der_iter(val))
    /\ res' = [op |-> "der_iter"]
    /\ UNCHANGED <<val, w>>

Nones(out) == Cardinality({i \in 1..Len(out) : ~out[i].some})

\* it.next()
IterNext ==
    /\ it.active /\ Nones(it.out) <= MaxNones
    /\ \E s \in {SequenceIterator_next(it.iter)} :
          /\ it' = [it EXCEPT !.iter = s.it,
                              !.calls = it.calls + 1,
                              !.out = Append(it.out, s.item)]
          /\ res' = [op |-> "next", out |-> s.item]
    /\ UNCHANGED <<val, w>>

\* val.ber_sequence_of() / val.der_sequence_of()
BerSequenceOf ==
    /\ val.type = "Sequence" /\ Idle
    /\ res' = [op |-> "ber_sequence_of", in |-> val,
               out |-> Sequence_ber_sequence_of(val)]
    /\ UNCHANGED <<val, it, w>>

DerSequenceOf ==
    /\ val.type = "Sequence" /\ Idle
    /\ res' = [op |-> "der_sequence_of", in |-> val,
               out |-> Sequence_der_sequence_of(val)]
    /\ UNCHANGED <<val, it, w>>

\* val.into_ber_sequence_of() / val.into_der_sequence_of(): val is moved.
IntoBerSequenceOf ==
    /\ val.type = "Sequence"
    /\ Fresh(NoVal, [op |-> "into_ber_sequence_of", in |-> val,
                     out |-> Sequence_into_ber_sequence_of(val)])

IntoDerSequenceOf ==
    /\ val.type = "Sequence"
    /\ Fresh(NoVal, [op |-> "into_der_sequence_of", in |-> val,
                     out |-> Sequence_into_der_sequence_of(val)])

\* A writer to serialize val to.
NewWriter ==
    /\ val.type # "None" /\ ~it.active
    /\ \E x \in Writers : w' = x
    /\ res' = [op |-> "writer"]
    /\ UNCHANGED <<val, it>>

\* val.write_der_header(&mut w)
WriteHeader ==
    /\ w.stage = "new"
    /\ \E r \in {WriteDerHeader(val, w)} :
          /\ w' = [r.w EXCEPT !.stage = "header", !.hdr = r.out]
          /\ res' = [op |-> "write_der_header", out |-> r.out]
    /\ UNCHANGED <<val, it>>

\* val.write_der_content(&mut w)
WriteContent ==
    /\ w.stage = "header"
    /\ \E r \in {WriteDerContent(val, w)} :
          /\ w' = [r.w EXCEPT !.stage = "content", !.cnt = r.out]
          /\ res' = [op |-> "write_der_content", out |-> r.out]
    /\ UNCHANGED <<val, it>>

\* T::from_der(&w.buf) on what the two writes put into the writer.
DecodeWritten ==
    /\ w.stage = "content"
    /\ w' = [w EXCEPT !.stage = "decoded"]
    /\ res' = [op |-> "from_der_written", type |-> val.type,
               out |-> FromDer(val.type, w.buf)]
    /\ UNCHANGED <<val, it>>

Next ==
    \/ NewSequence
    \/ NewString
    \/ TryFromAny
    \/ CheckAny
    \/ Decode
    \/ FromIterToDer
    \/ VecToStatic
    \/ ToStaticCall
    \/ ToDerLenCall
    \/ ParseRef
    \/ BerIter
    \/ DerIter
    \/ IterNext
    \/ BerSequenceOf
    \/ DerSequenceOf
    \/ IntoBerSequenceOf
    \/ IntoDerSequenceOf
    \/ NewWriter
    \/ WriteHeader
    \/ WriteContent
    \/ DecodeWritten

Spec == Init /\ [][Next]_vars

\* ----------------------------------------------------------------- claims

\* C1 (round trip): when val has been written to a Vec by write_der_header
\* and then write_der_content, from_der of the written bytes succeeds, gives
\* a value structurally equal to val, and leaves no byte over.
C1_RoundTrip ==
    (res.op = "from_der_written" /\ w.kind = "vec") =>
        /\ res.out.ok
        /\ StructEq(res.out.val.value, val)
        /\ res.out.val.rem = <<>>

C1_Witness ==
    /\ res.op = "from_der_written" /\ w.kind = "vec"
    /\ val.type = "Sequence" /\ Len(val.content) = 127
    /\ res.out.ok

\* C2 (encoded length), as claimed: whenever write_der_header and
\* write_der_content both returned Ok, to_der_len is the sum of the two
\* counts they returned.
C2_LenIsWritten ==
    (w.stage \in {"content", "decoded"} /\ w.hdr.ok /\ w.cnt.ok) =>
        ToDerLen(val) = Ok(w.hdr.val + w.cnt.val)

\* C3 (class compared with the tag), as claimed: try_from of an Any whose
\* class is not Universal never succeeds (it is to fail with the tag
\* mismatch error), whatever its tag number.
C3_ClassCompared ==
    (res.op = "try_from" /\ res.any.class # "Universal") => ~res.out.ok

ValidDerElems ==
    {[bytes |-> <<12, 0>>, value |-> StringOf(<<>>)],
     [bytes |-> <<12, 1, 65>>, value |-> StringOf(<<65>>)]}
ValidBerElems ==
    ValidDerElems \cup {[bytes |-> <<44, 1, 65>>, value |-> StringOf(<<65>>)]}

\* The contents that are N back-to-back valid encodings, N <= MaxElems.
RunsOf(elems) ==
    {[bytes |-> FlattenBytes([i \in 1..Len(es) |-> es[i].bytes]), elems |-> es]
        : es \in SeqsUpTo(elems, MaxElems)}
ValidDerRuns == RunsOf(ValidDerElems)
ValidBerRuns == RunsOf(ValidBerElems)
ValidRuns(disc) == IF disc = "ber" THEN ValidBerRuns ELSE ValidDerRuns

\* The discipline a method of Sequence decodes under.
OpDisc(op) ==
    IF op \in {"ber_iter", "ber_sequence_of", "into_ber_sequence_of"}
       THEN "ber" ELSE "der"

\* The total encoded size of the first k elements of a run.
RECURSIVE SizeOfFirst(_, _)
SizeOfFirst(es, k) ==
    IF k = 0 THEN 0 ELSE SizeOfFirst(es, k - 1) + Len(es[k].bytes)

\* C5 (iteration exhaustion): over a content of exactly N valid encodings,
\* the first N calls of next return the N elements in order, each call
\* moves the cursor on by the element's encoded size, and every later call
\* returns None; no call returns an error.
C5_Exhaustion ==
    it.active =>
        \A run \in ValidRuns(OpDisc(it.method)) :
            val.content = run.bytes =>
                LET N == Len(run.elems)
                    k == Min(it.calls, N)
                    used == SizeOfFirst(run.elems, k)
                IN /\ Len(it.out) = it.calls
                   /\ \A i \in 1..k : it.out[i] = Some(Ok(run.elems[i].value))
                   /\ \A i \in (N + 1)..it.calls : it.out[i] = None
                   /\ it.iter.data = SubSeq(val.content, used + 1, Len(val.content))
                   /\ ~it.iter.has_error

C5_Witness ==
    /\ it.active /\ it.method = "ber_iter"
    /\ val.content = <<12, 1, 65, 44, 1, 65, 12, 0>>
    /\ it.calls = 4
    /\ it.out[3] = Some(Ok(StringOf(<<>>)))
    /\ it.out[4] = None

\* The truncated elements: the encoding of "AA" cut after its tag byte and
\* after the first content byte.
TruncatedTails == {<<12>>, <<12, 2, 65>>}
PartialRuns(disc) ==
    {[bytes |-> r.bytes \o t, elems |-> r.elems]
        : r \in ValidRuns(disc), t \in TruncatedTails}

C7_ParseRefGuard ==
    res.op = "parse_ref" =>
        IF res.in.owned
           THEN res.out = Err("LifetimeError") /\ res.calls = <<>>
        ELSE /\ res.calls = <<res.in.content>>
             /\ res.out = Callback(res.f, res.in.content)

C7_Witness ==
    /\ res.op = "parse_ref"
    /\ res.in.owned
    /\ Len(res.in.content) > 0
    /\ res.out = Err("LifetimeError")

IsAscii(b) == \A i \in 1..Len(b) : b[i] < 128

\* C8 (DER constraint on strings): for an Any with tag 12,
\* String::check_constraints fails with the constraint error when the Any is
\* constructed and succeeds when it is primitive; String::from_der of an
\* encoding that starts with a constructed UTF8String fails with the
\* constraint error; String::try_from accepts the constructed Any when its
\* content is valid UTF-8.
C8_DerStringConstraint ==
    /\ (res.op = "check_constraints" /\ res.type = "String"
        /\ res.any.tag = 12) =>
          IF res.any.constructed = 1 THEN res.out = Err("ConstraintError")
          ELSE res.out.ok
    /\ (res.op = "try_from" /\ res.type = "String" /\ res.any.tag = 12
        /\ res.any.constructed = 1 /\ IsAscii(res.any.content)) =>
          res.out = Ok(StringOf(res.any.content))
    /\ (res.op = "decode" /\ res.type = "String" /\ res.disc = "der"
        /\ Len(res.input) >= 3
        /\ SubSeq(res.input, 1, 3) = <<44, 1, 65>>) =>
          res.out = Err("ConstraintError")

C8_Witness ==
    /\ res.op = "check_constraints" /\ res.type = "String"
    /\ res.any.tag = 12 /\ res.any.constructed = 1
    /\ res.any.content = <<65>>
    /\ res.out = Err("ConstraintError")

\* The least k with n < 256^k: the number of big-endian bytes of n.
MinimalBytes(n) == CHOOSE k \in 1..8 : n < 256 ^ k /\ (k > 1 => n >= 256 ^ (k - 1))

\* C9 (length threshold): to_der_len of a Sequence or a String of content
\* size n is 2 + n for n <= 126 and 1 + (1 + k) + n for n >= 127, k the
\* minimal number of big-endian bytes of n.
C9_LengthThreshold ==
    res.op = "to_der_len" =>
        LET n == Len(res.in.content)
        IN res.out = Ok(IF n <= 126 THEN 2 + n
                        ELSE 1 + (1 + MinimalBytes(n)) + n)

C9_Witness ==
    /\ res.op = "to_der_len"
    /\ res.in.type = "Sequence"
    /\ Len(res.in.content) = 127
    /\ res.out = Ok(130)

\* C10 (to_static): to_static of a Sequence is owned, holds the bytes of the
\* Sequence, is its own to_static, and leaves the Sequence as it was; the
\* same holds element by element for a vector of Sequences.
C10_ToStatic ==
    /\ (res.op = "to_static" /\ res.in.type = "Sequence") =>
          /\ res.out.type = "Sequence"
          /\ res.out.owned
          /\ res.out.content = res.in.content
          /\ Sequence_to_static(res.out) = res.out
          /\ val = res.in
    /\ res.op = "vec_to_static" =>
          /\ Len(res.out) = Len(res.in)
          /\ \A i \in 1..Len(res.in) :
                /\ res.out[i].owned
                /\ res.out[i].content = res.in[i].content
          /\ Vec_to_static(res.out) = res.out

C10_Witness ==
    /\ res.op = "to_static"
    /\ res.in.type = "Sequence"
    /\ ~res.in.owned
    /\ Len(res.in.content) > 0
    /\ res.out.owned

=============================================================================
